---- MODULE Spec2Model ----
(***************************************************************************)
(* Model of src/main.py: the orchestrator main() that fans account tasks   *)
(* out behind an asyncio.Semaphore, and the life of one account task:      *)
(* TikTokBot.login (retry loop over fresh driver instances),               *)
(* TikTokBot.process_videos (engagement cycles), TikTokBot.close_session   *)
(* and TikTokBot.process_account.                                          *)
(*                                                                         *)
(* asyncio schedules cooperatively: a task can only be interleaved with    *)
(* another one at an await.  Every action below is one awaited collaborator*)
(* call (playwright, captcha solver) together with the synchronous code    *)
(* that follows it up to the next await.  A collaborator call either       *)
(* returns or raises an Exception; both outcomes are enumerated.  A call   *)
(* of browser.close() or playwright.stop() that raises has not released    *)
(* the instance.                                                           *)
(***************************************************************************)
EXTENDS Integers, Sequences, FiniteSets, TLC

\* Bounds of the explored inputs.
MaxAccounts == 2
MaxProxies == 2
MaxConcurrent == 2
MaxAttempts == 3
MaxCycles == 2
MaxCommentLines == 2
MaxListed == 2

VARIABLES
    files,       \* the environment: accounts file, comments file, log sink
    process,     \* __main__: how the process ended
    comments,    \* TikTokBot.comments: the comment pool
    accounts,    \* main: list returned by read_accounts (account ids)
    proxies,     \* main: list returned by read_proxies (proxy ids)
    config,      \* BotConfig: its attributes (the options the orchestration reads)
    mainPc,      \* position of main(): "config", "start", "gather", "done", ...
    semaphore,   \* asyncio.Semaphore: its free value
    tasks,       \* index of enumerate(accounts) -> state of that account's task
    results,     \* main: the list asyncio.gather returned
    summary      \* main: what the final log line reports

vars == <<files, process, comments, accounts, proxies, config, mainPc, semaphore,
          tasks, results, summary>>

None == 0

\* The awaited collaborator calls of one login attempt after setup_browser,
\* in program order (src/main.py 217-232).
LoginSteps == <<"goto", "fill_email", "fill_password", "click",
                "captcha1", "wait", "captcha2">>

\* asyncio.sleep does not raise an Exception; every other call may.
MayRaise(name) == name # "wait"

\* The awaited steps of one engagement cycle, in program order
\* (src/main.py 279-344).
CycleSteps == <<"goto", "captcha_feed", "open_video", "captcha_video",
                "open_comments", "captcha_comments", "post_comment",
                "captcha_post", "reply", "next">>

\* page.goto and solve_captcha_if_present are called bare inside
\* process_videos: an Exception they raise reaches its except clause.
\* The _open_first_video/_open_comments/_post_comment/_reply_to_comment/
\* _click_next_button helpers catch every Exception and return a boolean.
Propagates(name) ==
    name \in {"goto", "captcha_feed", "captcha_video", "captcha_comments", "captcha_post"}

IndexOfNext == 10

\* process_videos 312 / 325: random.choice(self.comments) is evaluated right
\* after these captcha resolutions return.
ChoiceFollows(name) == name \in {"captcha_comments", "captcha_post"}

----------------------------------------------------------------------------
(* BotConfig                                                                *)

\* _set_defaults 33-59: the options it assigns.
Options == {"sadcaptcha_api_key", "max_login_attempts", "headless",
            "accounts_file", "comments_file", "proxies_file",
            "min_delay", "max_delay", "login_delay",
            "cycles_per_account", "min_next_clicks", "max_next_clicks",
            "max_concurrent_accounts", "proxy_type"}

\* The attributes after _set_defaults; a value is named by where it came from.
SetDefaults == [o \in Options |-> "default"]

\* __init__ 18-31: the attributes of the object after construction.  An
\* existing file that parses to an object only updates __dict__ with the
\* keys it lists; _set_defaults runs when the file is missing or when
\* loading it raised.
BotConfigInit(cf) ==
    IF cf.exists /\ cf.wellformed
    THEN [o \in cf.listed |-> "file"]
    ELSE SetDefaults

\* save 61-68: the attributes are written out; an Exception while writing
\* is logged and the file stays as it was.
Saved(cf, attrs, ok) ==
    IF ok THEN [exists |-> TRUE, wellformed |-> TRUE, listed |-> DOMAIN attrs] ELSE cf

\* main 796: config = BotConfig(); save is called only for a missing file (31).
MainConfig ==
    /\ mainPc = "config"
    /\ config' = BotConfigInit(files.config)
    /\ \/ /\ files.config.exists
          /\ UNCHANGED files
       \/ /\ ~files.config.exists
          /\ \E ok \in BOOLEAN :
                files' = [files EXCEPT !.config = Saved(@, config', ok)]
    /\ mainPc' = "start"
    /\ UNCHANGED <<process, comments, accounts, proxies, semaphore, tasks, results, summary>>

----------------------------------------------------------------------------
(* FileHandler                                                              *)

\* The j-th smallest element of a finite set of numbers.
Nth(S, j) == CHOOSE x \in S : Cardinality({y \in S : y < x}) = j - 1

\* read_accounts 81-93.  f.lines are the lines read before the end of the
\* file or before reading raised (f.error; a missing file raises at once).
\* Lines with a colon become accounts, named here by their line number; on
\* an error the accounts read so far are returned.
ReadAccounts(f) ==
    LET idx == {i \in 1..Len(f.lines) : f.lines[i] = "account"}
    IN  [j \in 1..Cardinality(idx) |-> Nth(idx, j)]

\* read_comments 105-116: the built-in pool.
DefaultPoolSize == 10
DefaultComments == [i \in 1..DefaultPoolSize |-> "default"]

IsText(line) == line = "text"

\* read_comments 95-118: the stripped non-blank lines of the file; the
\* built-in pool only when opening or reading the file raised.
ReadCommentsDefaultEmpty(f) ==
    IF f.readable THEN SelectSeq(f.lines, IsText) ELSE <<>>
ReadComments(f) ==
    IF f.readable THEN SelectSeq(f.lines, IsText) ELSE DefaultComments

----------------------------------------------------------------------------
(* main(): task creation                                                    *)

\* main 835-840: proxy = proxies[i % len(proxies)] if proxies else None
ProxyForAlwaysFirst(i, ps) == IF Len(ps) = 0 THEN None ELSE ps[1]
ProxyFor(i, ps) == IF Len(ps) = 0 THEN None ELSE ps[(i % Len(ps)) + 1]

\* A coroutine process_with_semaphore(account, proxy) that has not run yet.
NewTask(p) ==
    [pc |-> "waiting",        \* position of the task
     proxy |-> p,             \* argument proxy
     holdsGate |-> FALSE,     \* inside "async with semaphore"
     current_attempt |-> 0,   \* login: current_attempt
     refs |-> FALSE,          \* login: locals playwright/browser are not None
     pwLive |-> {},           \* attempts whose playwright driver is started, not stopped
     brLive |-> {},           \* attempts whose browser is launched, not closed
     session |-> None,        \* process_account: session_data (attempt that made it)
     cycle |-> 0,             \* process_videos: cycle (0: never called)
     step |-> 0,              \* index into LoginSteps / CycleSteps
     ret |-> "none",          \* value the task returned
     loggedIn |-> None,       \* history: attempt whose login succeeded
     nSetup |-> 0,            \* history: calls of setup_browser
     nClose |-> 0,            \* history: calls of browser.close() made by login
     nStop |-> 0,             \* history: calls of playwright.stop() made by login
     closeCalled |-> FALSE,   \* history: close_session was invoked
     opened |-> FALSE,        \* process_videos: comments_opened
     nNext |-> 0,             \* history: calls of _click_next_button
     url |-> <<>>,            \* login 235: page.url as last inspected (<<>>: never)
     raised |-> {}]           \* history: where collaborator calls raised

\* main 846: sum(1 for result in results if result is True)
SuccessCountAll(rs) == Len(rs)
SuccessCount(rs) == Cardinality({i \in DOMAIN rs : rs[i] = "True"})

\* main 796-840: set up logging (an Exception there leaves main), build the
\* bot (which reads the comments), read the accounts, stop if there is none,
\* otherwise create the semaphore and one coroutine per account.
MainStart ==
    /\ mainPc = "start"
    /\ \/ /\ ~files.log_ok
          /\ mainPc' = "raised"
          /\ UNCHANGED <<comments, accounts, semaphore, tasks>>
       \/ /\ files.log_ok
          /\ comments' = ReadComments(files.comments)
          /\ accounts' = ReadAccounts(files.accounts)
          /\ \/ /\ Len(accounts') = 0
                /\ mainPc' = "returned"
                /\ UNCHANGED <<semaphore, tasks>>
             \/ /\ Len(accounts') > 0
                /\ mainPc' = "gather"
                /\ semaphore' = config.max_concurrent_accounts
                /\ tasks' = [i \in 0..(Len(accounts') - 1) |->
                                NewTask(ProxyFor(i, proxies))]
    /\ UNCHANGED <<files, process, proxies, config, results, summary>>

\* main 843-847: gather returns once every task is done; the summary follows
\* without an await.
MainSummary ==
    /\ mainPc = "gather"
    /\ \A i \in DOMAIN tasks : tasks[i].pc = "done"
    /\ results' = [j \in 1..Len(accounts) |-> tasks[j - 1].ret]
    /\ summary' = [processed |-> Len(accounts), success |-> SuccessCount(results')]
    /\ mainPc' = "done"
    /\ UNCHANGED <<files, process, comments, accounts, proxies, config, semaphore, tasks>>

\* __main__ 850-856: asyncio.run(main()) returned, or raised an Exception
\* that is logged as critical, or was interrupted, which is logged as a
\* warning; in every case the script then runs off its end.
ExitStatus(raisedOut) == 0

ProcessExit ==
    /\ process.pc = "running"
    /\ mainPc \in {"done", "returned", "raised", "interrupted"}
    /\ process' = [pc |-> "exited",
                   critical |-> (mainPc = "raised"),
                   status |-> ExitStatus(mainPc = "raised")]
    /\ UNCHANGED <<files, comments, accounts, proxies, config, mainPc, semaphore,
                   tasks, results, summary>>

----------------------------------------------------------------------------
(* The synchronous continuations of an account task                         *)

\* process_with_semaphore 827-831 and the exit of "async with semaphore":
\* the task returns result and gives its unit back.
TaskExitKeepOnFailure(r, result) ==
    [r EXCEPT !.pc = "done", !.ret = result, !.session = None,
              !.holdsGate = (result # "True")]
TaskExit(r, result) ==
    [r EXCEPT !.pc = "done", !.ret = result, !.session = None, !.holdsGate = FALSE]

\* process_account 788-790: except Exception -> return False
ProcessAccountExcept(r) == TaskExit(r, "False")

\* process_account 779-783: the value of process_videos is dropped,
\* close_session is awaited next.
VideosReturnSkipClose(r, ok) ==
    IF ok THEN [r EXCEPT !.pc = "cs_close", !.step = 0, !.opened = FALSE,
                         !.closeCalled = TRUE]
    ELSE TaskExit([r EXCEPT !.opened = FALSE], "False")
VideosReturn(r, ok) ==
    [r EXCEPT !.pc = "cs_close", !.step = 0, !.opened = FALSE, !.closeCalled = TRUE]

\* close_session 768-769: except Exception -> log; close_session returns
\* and process_account goes on to return True (783).
CloseSessionExceptFails(r) ==
    TaskExit([r EXCEPT !.raised = @ \cup {"release"}], "False")
CloseSessionExcept(r) ==
    TaskExit([r EXCEPT !.raised = @ \cup {"release"}], "True")

\* process_videos 275: for cycle in range(1, cycles_per_account + 1);
\* 349-350: after the last cycle return True.
EnterCycle(r, c) ==
    IF c <= config.cycles_per_account
    THEN [r EXCEPT !.pc = "cycle", !.cycle = c, !.step = 1]
    ELSE VideosReturn(r, TRUE)

\* process_account 775-786: what follows the return of login().
AfterLoginAlwaysVideos(r, got) ==
    EnterCycle([r EXCEPT !.session = IF got THEN r.current_attempt ELSE None,
                         !.loggedIn = IF got THEN r.current_attempt ELSE None], 1)
AfterLogin(r, got) ==
    IF got
    THEN EnterCycle([r EXCEPT !.session = r.current_attempt,
                              !.loggedIn = r.current_attempt], 1)
    ELSE TaskExit(r, "False")

\* login 198: while current_attempt <= max_login_attempts
LoopContinuesOffByOne(a) == a < config.max_login_attempts
LoopContinues(a) == a <= config.max_login_attempts

\* login 198-206 / 261-262: the head of the retry loop.  Either the next
\* attempt starts (locals reset to None, setup_browser is awaited next) or
\* login returns None.
LoginLoop(r) ==
    IF LoopContinues(r.current_attempt)
    THEN [r EXCEPT !.refs = FALSE, !.step = 0, !.pc = "setup_start"]
    ELSE AfterLogin(r, FALSE)

\* login 251 / 259: current_attempt += 1, back to the loop head.
NextAttemptSkips(r) == LoginLoop([r EXCEPT !.current_attempt = @ + 2])
NextAttempt(r) == LoginLoop([r EXCEPT !.current_attempt = @ + 1])

\* login 253-259: the except clause.  With both locals None nothing is
\* awaited; otherwise browser.close() is awaited next.
LoginExcept(r) ==
    LET e == [r EXCEPT !.raised = @ \cup {"login"}]
    IN  IF e.refs THEN [e EXCEPT !.pc = "exc_close"] ELSE NextAttempt(e)

\* asyncio.Semaphore.acquire: a unit is taken only while the value is positive.
CanAcquireAlways(v) == TRUE
CanAcquire(v) == v > 0

\* One step of task t from record tasks[t] to r2; the semaphore gets its unit
\* back in the step in which the task leaves "async with semaphore".
TaskStepDoubleRelease(t, r2) ==
    /\ tasks' = [tasks EXCEPT ![t] = r2]
    /\ semaphore' = IF tasks[t].holdsGate /\ ~r2.holdsGate
                    THEN semaphore + 2 ELSE semaphore
    /\ UNCHANGED <<files, process, comments, accounts, proxies, config, mainPc,
                   results, summary>>
TaskStep(t, r2) ==
    /\ tasks' = [tasks EXCEPT ![t] = r2]
    /\ semaphore' = IF tasks[t].holdsGate /\ ~r2.holdsGate
                    THEN semaphore + 1 ELSE semaphore
    /\ UNCHANGED <<files, process, comments, accounts, proxies, config, mainPc,
                   results, summary>>

----------------------------------------------------------------------------
(* The account task, one action per awaited call                            *)

\* process_with_semaphore 824: "async with semaphore" takes a unit; then
\* process_account -> login run up to the first await (setup_browser).
Acquire(t) ==
    /\ tasks[t].pc = "waiting"
    /\ CanAcquire(semaphore)
    /\ semaphore' = semaphore - 1
    /\ tasks' = [tasks EXCEPT ![t] =
                    LoginLoop([@ EXCEPT !.holdsGate = TRUE, !.current_attempt = 1])]
    /\ UNCHANGED <<files, process, comments, accounts, proxies, config, mainPc,
                   results, summary>>

\* setup_browser 166: p = await async_playwright().start()
SetupStart(t) ==
    LET r == [tasks[t] EXCEPT !.nSetup = @ + 1] IN
    /\ tasks[t].pc = "setup_start"
    /\ \/ TaskStep(t, [r EXCEPT !.pwLive = @ \cup {r.current_attempt},
                                !.pc = "setup_launch"])
       \/ TaskStep(t, LoginExcept(r))

\* setup_browser 170-173: browser = await p.chromium.launch(...).  When it
\* raises, login's local playwright is still None: the started driver is
\* not reachable from the except clause.
SetupLaunch(t) ==
    LET r == tasks[t] IN
    /\ r.pc = "setup_launch"
    /\ \/ TaskStep(t, [r EXCEPT !.brLive = @ \cup {r.current_attempt},
                                !.pc = "setup_page"])
       \/ TaskStep(t, LoginExcept(r))

\* setup_browser 182-193 and login 206-214: new_context, new_page,
\* stealth_async; on return login binds playwright and browser.
SetupPage(t) ==
    LET r == tasks[t] IN
    /\ r.pc = "setup_page"
    /\ \/ TaskStep(t, [r EXCEPT !.refs = TRUE, !.pc = "login_body", !.step = 1])
       \/ TaskStep(t, LoginExcept(r))

\* login 217-231: the calls before the last captcha resolution.
LoginBody(t) ==
    LET r == tasks[t] IN
    /\ r.pc = "login_body"
    /\ r.step < Len(LoginSteps)
    /\ \/ TaskStep(t, [r EXCEPT !.step = @ + 1])
       \/ /\ MayRaise(LoginSteps[r.step])
          /\ TaskStep(t, LoginExcept(r))

\* The page locations login can find after submitting, as path segments:
\* the feed, or still the login page.
LoginUrls == {<<"foryou">>, <<"login", "phone-or-email", "email">>}

\* login 235: "login" in page.url
HasLoginMarkerNever(u) == FALSE
HasLoginMarker(u) == \E i \in 1..Len(u) : u[i] = "login"

\* login 232-251: the second captcha resolution, then the URL decides:
\* without the login marker the session is returned, with it the attempt
\* is torn down (browser.close() is awaited next).
LoginCheck(t) ==
    LET r == tasks[t] IN
    /\ r.pc = "login_body"
    /\ r.step = Len(LoginSteps)
    /\ \/ \E u \in LoginUrls :
             TaskStep(t, IF HasLoginMarker(u)
                         THEN [r EXCEPT !.url = u, !.pc = "fail_close", !.step = 0]
                         ELSE AfterLogin([r EXCEPT !.url = u], TRUE))
       \/ TaskStep(t, LoginExcept(r))

\* login 249: await browser.close() after a failed attempt.
FailClose(t) ==
    LET r == [tasks[t] EXCEPT !.nClose = @ + 1] IN
    /\ tasks[t].pc = "fail_close"
    /\ \/ TaskStep(t, [r EXCEPT !.brLive = @ \ {r.current_attempt}, !.pc = "fail_stop"])
       \/ TaskStep(t, LoginExcept(r))

\* login 250-251: await playwright.stop(); current_attempt += 1
FailStop(t) ==
    LET r == [tasks[t] EXCEPT !.nStop = @ + 1] IN
    /\ tasks[t].pc = "fail_stop"
    /\ \/ TaskStep(t, NextAttempt([r EXCEPT !.pwLive = @ \ {r.current_attempt}]))
       \/ TaskStep(t, LoginExcept(r))

\* login 255-256: in the except clause, if browser: await browser.close().
\* An Exception raised here leaves login and reaches process_account.
ExcClose(t) ==
    LET r == [tasks[t] EXCEPT !.nClose = @ + 1] IN
    /\ tasks[t].pc = "exc_close"
    /\ \/ TaskStep(t, [r EXCEPT !.brLive = @ \ {r.current_attempt}, !.pc = "exc_stop"])
       \/ TaskStep(t, ProcessAccountExcept([r EXCEPT !.raised = @ \cup {"handler"}]))

\* login 257-259: if playwright: await playwright.stop(); current_attempt += 1
ExcStop(t) ==
    LET r == [tasks[t] EXCEPT !.nStop = @ + 1] IN
    /\ tasks[t].pc = "exc_stop"
    /\ \/ TaskStep(t, NextAttempt([r EXCEPT !.pwLive = @ \ {r.current_attempt}]))
       \/ TaskStep(t, ProcessAccountExcept([r EXCEPT !.raised = @ \cup {"handler"}]))

\* process_videos 303/338: without the comment panel the cycle goes on with
\* _click_next_button; otherwise the next step in program order.
StepAfterNoSkip(i, ok) == i + 1
StepAfter(i, ok) ==
    IF CycleSteps[i] = "open_comments" /\ ~ok THEN IndexOfNext ELSE i + 1

\* process_videos 344-347 / 275: once _click_next_button has returned the
\* loop goes to the next cycle, or past its end.
CycleEndsAfterReply(i) == i >= IndexOfNext - 1
CycleEnds(i) == i = IndexOfNext

\* process_videos 279-350: what follows a step of the cycle that returned
\* (ok is the boolean a helper reported).  random.choice raises IndexError
\* on an empty pool, which reaches the except clause (352-355).
CycleAdvance(r, ok) ==
    LET c == [r EXCEPT !.nNext = @ + (IF CycleSteps[r.step] = "next" THEN 1 ELSE 0)]
    IN  IF CycleEnds(r.step)
        THEN EnterCycle(c, r.cycle + 1)
        ELSE IF ChoiceFollows(CycleSteps[r.step]) /\ Len(comments) = 0
        THEN VideosReturn([c EXCEPT !.raised = @ \cup {"choice"}], FALSE)
        ELSE [c EXCEPT !.step = StepAfter(r.step, ok),
                       !.opened = IF CycleSteps[r.step] = "open_comments" THEN ok ELSE @]

\* process_videos 352-355: except Exception -> log, return False; the
\* loop is left at once.
CycleExceptContinues(r) == [r EXCEPT !.raised = @ \cup {"cycles"}, !.step = @ + 1]
CycleExcept(r) == VideosReturn([r EXCEPT !.raised = @ \cup {"cycles"}], FALSE)

\* process_videos 279-347: one awaited step of the current cycle.  A helper
\* reports a boolean; page.goto and the captcha solver may raise into
\* process_videos' except clause (352-355), which returns False.
CycleStep(t) ==
    LET r == tasks[t] IN
    /\ r.pc = "cycle"
    /\ \/ \E ok \in BOOLEAN :
             /\ Propagates(CycleSteps[r.step]) => ok
             /\ TaskStep(t, CycleAdvance(r, ok))
       \/ /\ Propagates(CycleSteps[r.step])
          /\ TaskStep(t, CycleExcept(r))

\* close_session 759-762 / 768-769: await session_data["browser"].close().
\* An Exception is logged and close_session returns at once; process_account
\* then returns True (783).
CsClose(t) ==
    LET r == tasks[t] IN
    /\ r.pc = "cs_close"
    /\ \/ TaskStep(t, [r EXCEPT !.brLive = @ \ {r.session}, !.pc = "cs_stop"])
       \/ TaskStep(t, CloseSessionExcept(r))

\* close_session 763-769: await session_data["playwright"].stop(); then
\* process_account returns True (783).
CsStop(t) ==
    LET r == tasks[t] IN
    /\ r.pc = "cs_stop"
    /\ \/ TaskStep(t, TaskExit([r EXCEPT !.pwLive = @ \ {r.session}], "True"))
       \/ TaskStep(t, CloseSessionExcept(r))

----------------------------------------------------------------------------
(* External interrupt                                                       *)

\* A task that is cancelled: CancelledError is raised at the await the task
\* is suspended on.  It is not an Exception, so no except clause of login
\* (253), process_videos (352), close_session (768) or process_account
\* (788) catches it and no cleanup code runs; "async with semaphore" (824)
\* gives the unit back on the way out.
Cancelled(r) ==
    IF r.pc = "done" THEN r
    ELSE TaskExit([r EXCEPT !.raised = @ \cup {"cancelled"}], "cancelled")

\* __main__ 851-854: an interrupt arrives while main awaits gather.
\* asyncio.run cancels every task that has not finished and lets the
\* KeyboardInterrupt reach __main__.
Interrupt ==
    /\ mainPc = "gather"
    /\ tasks' = [t \in DOMAIN tasks |-> Cancelled(tasks[t])]
    /\ semaphore' = semaphore + Cardinality({t \in DOMAIN tasks : tasks[t].holdsGate})
    /\ mainPc' = "interrupted"
    /\ UNCHANGED <<files, process, comments, accounts, proxies, config, results, summary>>

----------------------------------------------------------------------------
(* Specifications                                                           *)

\* Accounts files of n account lines that are read to the end.
GoodAccountFiles(N) ==
    {[lines |-> [i \in 1..n |-> "account"], error |-> FALSE] : n \in 0..N}

\* Accounts files of at most one line: an account or a line without a
\* colon, read to the end or cut short by an error.
SmallAccountFiles ==
    {[lines |-> l, error |-> e] :
        l \in {<<>>, <<"account">>, <<"other">>}, e \in BOOLEAN}

NoCommentsFile == [readable |-> FALSE, lines |-> <<>>]

\* Comments files of at most N lines, blank or not, and the missing file.
CommentFiles(N) ==
    {NoCommentsFile} \cup
    UNION {{[readable |-> TRUE, lines |-> l] : l \in [1..n -> {"text", "blank"}]} :
              n \in 0..N}

InitWith(afs, ls, cs, ks, ys, cfs) ==
    /\ \E af \in afs, cf \in cfs, ok \in BOOLEAN :
          files = [accounts |-> af, comments |-> cf, log_ok |-> ok]
    /\ \E l \in ls : proxies = [j \in 1..l |-> j]
    /\ \E c \in cs, k \in ks, y \in ys :
          config = [max_concurrent_accounts |-> c,
                    max_login_attempts |-> k,
                    cycles_per_account |-> y]
    /\ process = [pc |-> "running", critical |-> FALSE, status |-> None]
    /\ comments = <<>>
    /\ accounts = <<>>
    /\ mainPc = "start"
    /\ semaphore = 0
    /\ tasks = <<>>
    /\ results = <<>>
    /\ summary = [processed |-> 0, success |-> 0]

\* Several accounts behind the gate, no proxy, one login attempt and one
\* cycle each.
Init == InitWith(GoodAccountFiles(MaxAccounts), {0}, 1..MaxConcurrent, {1}, {1},
                 {NoCommentsFile})

\* Several accounts and several proxies, one account at a time.
InitProxy == InitWith(GoodAccountFiles(MaxAccounts), 0..MaxProxies, {1}, {1}, {1},
                      {NoCommentsFile})

\* One account, with the retry loop and the cycle loop at their bounds.
InitSession == InitWith(SmallAccountFiles, {0, 1}, {1}, 1..MaxAttempts, 1..MaxCycles,
                        {NoCommentsFile})

\* One account and every small comments file.
InitComments == InitWith(GoodAccountFiles(1), {0}, {1}, {1}, 1..MaxCycles,
                         CommentFiles(MaxCommentLines))

Next ==
    \/ MainStart
    \/ MainSummary
    \/ ProcessExit
    \/ \E t \in DOMAIN tasks : Acquire(t)
    \/ \E t \in DOMAIN tasks : SetupStart(t)
    \/ \E t \in DOMAIN tasks : SetupLaunch(t)
    \/ \E t \in DOMAIN tasks : SetupPage(t)
    \/ \E t \in DOMAIN tasks : LoginBody(t)
    \/ \E t \in DOMAIN tasks : LoginCheck(t)
    \/ \E t \in DOMAIN tasks : FailClose(t)
    \/ \E t \in DOMAIN tasks : FailStop(t)
    \/ \E t \in DOMAIN tasks : ExcClose(t)
    \/ \E t \in DOMAIN tasks : ExcStop(t)
    \/ \E t \in DOMAIN tasks : CycleStep(t)
    \/ \E t \in DOMAIN tasks : CsClose(t)
    \/ \E t \in DOMAIN tasks : CsStop(t)

Spec == Init /\ [][Next]_vars

SpecProxy == InitProxy /\ [][Next]_vars

SpecSession == InitSession /\ [][Next]_vars

SpecComments == InitComments /\ [][Next]_vars

\* Runs without an external interrupt in which every collaborator call
\* returns or raises: some step is taken as long as one is possible (the
\* event loop runs a ready task; a released unit wakes a waiting task).
\* Either several accounts queue behind a gate of one, or one account runs
\* with the retry loop and the cycle loop at their bounds.
InitLive ==
    \/ InitWith(GoodAccountFiles(MaxAccounts), {0}, {1}, {1}, {1}, {NoCommentsFile})
    \/ InitWith(GoodAccountFiles(1), {0}, {1}, 1..MaxAttempts, 1..MaxCycles,
                {NoCommentsFile})

SpecLive == InitLive /\ [][Next]_vars /\ WF_vars(Next)

\* The settings files: missing, malformed, or an object listing at most N
\* of the options.
ConfigFiles(N) ==
    {[exists |-> FALSE, wellformed |-> FALSE, listed |-> {}],
     [exists |-> TRUE, wellformed |-> FALSE, listed |-> {}]} \cup
    {[exists |-> TRUE, wellformed |-> TRUE, listed |-> L] :
        L \in {S \in SUBSET Options : Cardinality(S) <= N}}

\* The construction of the configuration, from every small settings file.
InitConfig ==
    /\ \E cf \in ConfigFiles(MaxListed) :
          files = [config |-> cf,
                   accounts |-> [lines |-> <<>>, error |-> FALSE],
                   comments |-> NoCommentsFile,
                   log_ok |-> TRUE]
    /\ config = [o \in {} |-> "default"]
    /\ process = [pc |-> "running", critical |-> FALSE, status |-> None]
    /\ comments = <<>>
    /\ accounts = <<>>
    /\ proxies = <<>>
    /\ mainPc = "config"
    /\ semaphore = 0
    /\ tasks = <<>>
    /\ results = <<>>
    /\ summary = [processed |-> 0, success |-> 0]

NextConfig == MainConfig

SpecConfig == InitConfig /\ [][NextConfig]_vars

\* Runs in which an external interrupt may arrive: accounts queued behind a
\* gate of one.
InitInterrupt == InitWith(GoodAccountFiles(MaxAccounts), {0}, {1}, {1}, {1},
                          {NoCommentsFile})

NextInterrupt == Next \/ Interrupt

SpecInterrupt == InitInterrupt /\ [][NextInterrupt]_vars

----------------------------------------------------------------------------
(* Properties                                                               *)

T == DOMAIN tasks

Holders == {t \in T : tasks[t].holdsGate}

WithSession == {t \in T : tasks[t].session # None}

\* C1: at any time at most max_concurrent_accounts tasks hold a unit of the
\* gate, a session handle is only held by a task that holds a unit, and so
\* at most max_concurrent_accounts sessions are active at once.
C1_GateBoundsSessions ==
    /\ Cardinality(Holders) <= config.max_concurrent_accounts
    /\ WithSession \subseteq Holders
    /\ Cardinality(WithSession) <= config.max_concurrent_accounts
    /\ mainPc \in {"gather", "done"}
       => semaphore + Cardinality(Holders) = config.max_concurrent_accounts

\* A task logged in while another account is kept waiting by the full gate.
C1_Witness ==
    \E t, u \in T :
        /\ tasks[t].session # None
        /\ tasks[u].pc = "waiting"
        /\ semaphore = 0

\* C2: when every attempt ends with the login marker still in the URL (and
\* no collaborator call raises), login makes exactly max_login_attempts
\* attempts, closes the browser and stops the driver exactly once per
\* attempt, leaves no instance live, and returns None.
C2_AlwaysFailingLogin ==
    \A t \in T :
        (tasks[t].pc = "done" /\ tasks[t].loggedIn = None /\ tasks[t].raised = {})
        => /\ tasks[t].nSetup = config.max_login_attempts
           /\ tasks[t].nClose = config.max_login_attempts
           /\ tasks[t].nStop = config.max_login_attempts
           /\ tasks[t].pwLive = {}
           /\ tasks[t].brLive = {}
           /\ tasks[t].ret = "False"

\* login gave up after several attempts that all reported failure.
C2_Witness ==
    \E t \in T :
        /\ tasks[t].pc = "done"
        /\ tasks[t].loggedIn = None
        /\ tasks[t].raised = {}
        /\ config.max_login_attempts > 1
        /\ tasks[t].nStop = config.max_login_attempts

\* C3: a task that obtained a session from login has invoked close_session
\* on it by the time process_account has returned, also when the cycles
\* were cut short by an exception.
C3_SessionClosedOnEveryPath ==
    \A t \in T :
        /\ (tasks[t].pc = "done" /\ tasks[t].loggedIn # None) => tasks[t].closeCalled
        /\ (tasks[t].session # None /\ ~tasks[t].closeCalled) => tasks[t].pc = "cycle"

\* process_account returned after an exception ended the cycles of a
\* logged-in account.
C3_Witness ==
    \E t \in T :
        /\ tasks[t].pc = "done"
        /\ tasks[t].loggedIn # None
        /\ "cycles" \in tasks[t].raised
        /\ tasks[t].closeCalled

\* A step in which a collaborator call of some task raises leaves every
\* other task, main and the collected results as they were.
C4_RaisingStepIsLocal ==
    \A t \in T :
        (t \in DOMAIN tasks' /\ tasks'[t].raised # tasks[t].raised)
        => /\ \A u \in T \ {t} : tasks'[u] = tasks[u]
           /\ mainPc' = mainPc
           /\ results' = results
           /\ summary' = summary

\* No account is kept out of the gate by tasks that have ended, and at the
\* end every account has contributed the value its own task returned.
C4_OthersComplete ==
    /\ \A u \in T :
          (tasks[u].pc = "waiting" /\ semaphore = 0)
          => \E t \in T : tasks[t].holdsGate /\ tasks[t].pc # "done"
    /\ mainPc = "done"
       => \A u \in T : /\ tasks[u].pc = "done"
                       /\ tasks[u].ret \in {"True", "False"}
                       /\ results[u + 1] = tasks[u].ret

\* C4: an exception raised in one account's task changes nothing of any
\* other account's task, never ends main, and never keeps another account
\* from running to its own result.
C4_ExceptionIsolated == [][C4_RaisingStepIsLocal]_vars /\ []C4_OthersComplete

\* The run ended; one account failed on an exception, another succeeded
\* without any.
C4_Witness ==
    /\ mainPc = "done"
    /\ \E t, u \in T :
          /\ tasks[t].raised # {} /\ tasks[t].ret = "False"
          /\ tasks[u].raised = {} /\ tasks[u].ret = "True"

\* C5: the summary reports as processed the number of input accounts and as
\* succeeded the number of account tasks that returned True.
C5_SummaryCounts ==
    mainPc = "done"
    => /\ summary.processed = Len(accounts)
       /\ summary.success = Cardinality({t \in T : tasks[t].ret = "True"})
       /\ Len(results) = Len(accounts)

\* A summary over two accounts of which exactly one succeeded.
C5_Witness ==
    /\ mainPc = "done"
    /\ Len(accounts) = 2
    /\ summary.success = 1

\* An exception that was not absorbed by a later successful login attempt.
Unabsorbed(r) == r.raised \ {"login"} # {} \/ ("login" \in r.raised /\ r.loggedIn = None)

\* C6: an exception raised inside an account's task (login, cycles or
\* release) yields a failed result for the account and leaves none of its
\* driver instances or browsers live.
C6_ExceptionYieldsFailure ==
    \A t \in T :
        (tasks[t].pc = "done" /\ Unabsorbed(tasks[t]))
        => /\ tasks[t].ret = "False"
           /\ tasks[t].pwLive = {}
           /\ tasks[t].brLive = {}

\* C7: proxies are dealt round-robin in account order: the first
\* len(proxies) accounts get the proxies in list order, every later account
\* gets the proxy of the account len(proxies) places before it; with no
\* proxies every account gets None.
C7_RoundRobin ==
    \A i \in T :
        IF Len(proxies) = 0
        THEN tasks[i].proxy = None
        ELSE /\ i < Len(proxies) => tasks[i].proxy = proxies[i + 1]
             /\ i >= Len(proxies) => tasks[i].proxy = tasks[i - Len(proxies)].proxy

\* More accounts than proxies: two accounts ran with the same proxy.
C7_Witness ==
    /\ mainPc = "done"
    /\ Len(proxies) > 0
    /\ \E i, j \in T : i # j /\ tasks[i].proxy = tasks[j].proxy /\ tasks[i].proxy # None

\* C8: the cycles only ever run for an account whose login returned a
\* session; an account whose login failed ends with a failed result and
\* process_videos and close_session were never invoked for it.
C8_NoCyclesAfterLoginFailure ==
    \A t \in T :
        /\ tasks[t].cycle > 0 => tasks[t].loggedIn # None
        /\ (tasks[t].pc = "done" /\ tasks[t].loggedIn = None)
           => /\ tasks[t].ret = "False"
              /\ tasks[t].cycle = 0
              /\ ~tasks[t].closeCalled

\* All of several login attempts were made and failed.
C8_Witness ==
    \E t \in T :
        /\ tasks[t].pc = "done"
        /\ tasks[t].loggedIn = None
        /\ tasks[t].ret = "False"
        /\ config.max_login_attempts > 1
        /\ tasks[t].nSetup = config.max_login_attempts

\* C9: an exception during a login attempt counts as one failed attempt:
\* when the next attempt starts, and when login has given up, nothing the
\* earlier attempts acquired is live, and login only gives up after
\* max_login_attempts attempts.
C9_ExceptionIsFailedAttempt ==
    \A t \in T :
        "login" \in tasks[t].raised
        => /\ (tasks[t].pc = "setup_start" \/ (tasks[t].pc = "done" /\ tasks[t].loggedIn = None))
              => (tasks[t].pwLive = {} /\ tasks[t].brLive = {})
           /\ (tasks[t].pc = "done" /\ tasks[t].loggedIn = None)
              => tasks[t].nSetup = config.max_login_attempts

\* C10: once close_session has returned, the browser of the handle is
\* closed and its driver is stopped.
C10_CloseSessionReleasesBoth ==
    \A t \in T :
        (tasks[t].pc = "done" /\ tasks[t].closeCalled)
        => /\ tasks[t].loggedIn \notin tasks[t].brLive
           /\ tasks[t].loggedIn \notin tasks[t].pwLive


\* C11: an error raised while close_session closes the browser or stops the
\* driver never leaves close_session: the task still ends through
\* process_account's normal return, with the result of a logged-in account.
C11_CloseErrorsSwallowed ==
    \A t \in T :
        "release" \in tasks[t].raised
        => /\ tasks[t].pc = "done"
           /\ tasks[t].closeCalled
           /\ tasks[t].loggedIn # None
           /\ tasks[t].ret = "True"

\* close_session hit an error and the account still counts as succeeded.
C11_Witness ==
    \E t \in T :
        /\ "release" \in tasks[t].raised
        /\ tasks[t].loggedIn \in tasks[t].pwLive
        /\ tasks[t].ret = "True"

\* C12: the exit status tells the outcomes apart: zero after the summary,
\* non-zero (with a critical log line) after an Exception left main.
C12_ExitStatusDistinguishes ==
    process.pc = "exited"
    => /\ mainPc = "done" => process.status = 0
       /\ mainPc = "raised" => (process.critical /\ process.status # 0)

\* C13: without a readable comments file the pool is the built-in one of 10
\* entries, and no cycle is ever cut short by a choice from an empty pool.
C13_DefaultPoolWhenNoFile ==
    (~files.comments.readable /\ mainPc \in {"gather", "done", "returned"})
    => /\ Len(comments) = 10
       /\ \A t \in T : "choice" \notin tasks[t].raised

\* With no comments file, a cycle has chosen both its comment and its reply.
C13_Witness ==
    /\ ~files.comments.readable
    /\ \E t \in T : tasks[t].pc = "cycle" /\ CycleSteps[tasks[t].step] = "reply"

\* C14: when reading the accounts raised or gave no account, nothing is
\* started: no task, no unit of the gate, no driver, no summary; and the run
\* only ever stops early for lack of accounts.
C14_NoWorkWithoutAccounts ==
    /\ (files.accounts.error \/ Len(ReadAccounts(files.accounts)) = 0)
       => /\ T = {}
          /\ semaphore = 0
          /\ mainPc \in {"start", "returned", "raised"}
          /\ summary = [processed |-> 0, success |-> 0]
    /\ mainPc = "returned" => Len(accounts) = 0

\* C15: during login a task never has more than one driver instance or
\* browser live, and none is live when an attempt starts or when login has
\* given up.
C15_OneLiveInstance ==
    \A t \in T :
        /\ Cardinality(tasks[t].pwLive) <= 1
        /\ Cardinality(tasks[t].brLive) <= 1
        /\ tasks[t].pc = "setup_start" => tasks[t].pwLive \cup tasks[t].brLive = {}
        /\ tasks[t].loggedIn = None => tasks[t].pwLive \cup tasks[t].brLive \subseteq
                                          {tasks[t].current_attempt}

\* The semaphore only grows in the step in which a task ends, by one, and a
\* task that has ended never moves again.
C16_ReleaseStep ==
    \A t \in T :
        t \in DOMAIN tasks'
        => /\ (tasks[t].pc # "done" /\ tasks'[t].pc = "done")
              => /\ tasks[t].holdsGate /\ ~tasks'[t].holdsGate
                 /\ semaphore' = semaphore + 1
           /\ tasks[t].pc = "done" => tasks'[t] = tasks[t]

C16_OnlyEndingReleases ==
    (mainPc # "start" /\ semaphore' > semaphore)
    => \E t \in T : tasks[t].pc # "done" /\ tasks'[t].pc = "done"

\* Once every task has ended the gate is full again.
C16_AllBack ==
    (mainPc \in {"gather", "done"} /\ \A t \in T : tasks[t].pc = "done")
    => /\ semaphore = config.max_concurrent_accounts
       /\ \A t \in T : ~tasks[t].holdsGate

\* C16: every task gives its unit back exactly once, in the step in which it
\* ends (also when it ends on an exception), and when all have ended the
\* free count is max_concurrent_accounts again.
C16_GateReleasedOnce ==
    /\ [][C16_ReleaseStep /\ C16_OnlyEndingReleases]_vars
    /\ []C16_AllBack

\* More accounts than units, one of them ended on an exception, all units back.
C16_Witness ==
    /\ mainPc = "done"
    /\ Len(accounts) > config.max_concurrent_accounts
    /\ semaphore = config.max_concurrent_accounts
    /\ \E t \in T : tasks[t].raised # {} /\ tasks[t].ret = "False"

\* C17: login never makes more than max_login_attempts attempts; the session
\* it returns is the one of the last attempt made, no driver is acquired
\* after it, and its browser and driver are live when the cycles start;
\* login returns None only after max_login_attempts attempts.
C17_StopsAtFirstSuccess ==
    \A t \in T :
        /\ tasks[t].nSetup <= config.max_login_attempts
        /\ tasks[t].loggedIn # None
           => /\ tasks[t].nSetup = tasks[t].loggedIn
              /\ tasks[t].current_attempt = tasks[t].loggedIn
        /\ tasks[t].pc = "cycle"
           => /\ tasks[t].session = tasks[t].loggedIn
              /\ tasks[t].session \in tasks[t].pwLive
              /\ tasks[t].session \in tasks[t].brLive
        /\ (tasks[t].pc = "done" /\ tasks[t].loggedIn = None /\ "handler" \notin tasks[t].raised)
           => /\ tasks[t].nSetup = config.max_login_attempts
              /\ tasks[t].current_attempt = config.max_login_attempts + 1

\* A login that succeeded before the last allowed attempt; the task has ended
\* without another setup_browser.
C17_Witness ==
    \E t \in T :
        /\ tasks[t].pc = "done"
        /\ tasks[t].loggedIn # None
        /\ tasks[t].loggedIn > 1
        /\ tasks[t].loggedIn < config.max_login_attempts
        /\ tasks[t].nSetup = tasks[t].loggedIn

\* A step of a cycle: when opening the comments failed the next awaited step
\* is the advance of the same cycle; the advance is counted once and leads to
\* the next cycle or, after the last one, out of the loop.
C18_Step ==
    \A t \in T :
        (t \in DOMAIN tasks' /\ tasks[t].pc = "cycle" /\ tasks'[t] # tasks[t])
        => LET a == tasks[t]
               b == tasks'[t]
           IN  /\ (CycleSteps[a.step] = "open_comments" /\ ~b.opened)
                  => /\ b.pc = "cycle"
                     /\ b.cycle = a.cycle
                     /\ CycleSteps[b.step] = "next"
               /\ CycleSteps[a.step] = "next"
                  => /\ b.nNext = a.nNext + 1
                     /\ IF a.cycle < config.cycles_per_account
                        THEN b.pc = "cycle" /\ b.cycle = a.cycle + 1 /\ b.step = 1
                        ELSE b.pc = "cs_close" /\ b.raised = a.raised
               /\ CycleSteps[a.step] # "next" => b.nNext = a.nNext

\* The comment steps only run with the panel open, and every earlier cycle
\* has advanced the feed exactly once.
C18_State ==
    \A t \in T :
        tasks[t].pc = "cycle"
        => /\ CycleSteps[tasks[t].step] \in
                 {"captcha_comments", "post_comment", "captcha_post", "reply"}
              => tasks[t].opened
           /\ tasks[t].nNext = tasks[t].cycle - 1

\* C18: a cycle whose comment panel did not open skips the post and reply
\* steps, still advances the feed, and the loop goes on; every cycle that
\* reaches the advance step runs it exactly once.
C18_AdvanceDespiteClosedComments == [][C18_Step]_vars /\ []C18_State

\* The second cycle began after a first one in which the panel did not open.
C18_Witness ==
    \E t \in T :
        /\ tasks[t].pc = "cycle"
        /\ tasks[t].cycle = 2
        /\ tasks[t].step = 1
        /\ ~tasks[t].opened
        /\ tasks[t].nNext = 1

\* C19: when neither navigation nor a captcha resolution raised, the account
\* went through exactly cycles_per_account cycles, whatever the four
\* engagement actions reported.
C19_ExactlyAllCycles ==
    \A t \in T :
        (tasks[t].pc = "done" /\ tasks[t].loggedIn # None /\ "cycles" \notin tasks[t].raised)
        => /\ tasks[t].cycle = config.cycles_per_account
           /\ tasks[t].nNext = config.cycles_per_account

\* The steps the claim names, in the order it names them.
C20_Named == <<"goto", "captcha_feed", "open_video", "captcha_video", "open_comments",
               "post_comment", "captcha_post", "reply", "next">>

IndexOf(name) == CHOOSE i \in 1..Len(CycleSteps) : CycleSteps[i] = name

\* A step inside the cycles: within a cycle the step index only grows; the
\* cycle number only changes from the advance step, by one, to the first step.
C20_Step ==
    \A t \in T :
        (t \in DOMAIN tasks' /\ tasks'[t] # tasks[t] /\ tasks'[t].pc = "cycle")
        => LET a == tasks[t]
               b == tasks'[t]
           IN  IF a.pc = "cycle"
               THEN IF b.cycle = a.cycle
                    THEN b.step > a.step
                    ELSE /\ CycleSteps[a.step] = "next"
                         /\ b.cycle = a.cycle + 1
                         /\ b.step = 1
                         /\ b.nNext = a.cycle
               ELSE b.cycle = 1 /\ b.step = 1

C20_Order ==
    \A i, j \in 1..Len(C20_Named) :
        i < j => IndexOf(C20_Named[i]) < IndexOf(C20_Named[j])

\* C20: within an account the steps of a cycle run in program order
\* (navigate, captcha, open video, captcha, open comments, post, captcha,
\* reply, advance), and cycle N+1 starts only when the advance of cycle N
\* has returned.
C20_StepsInOrder == [][C20_Step]_vars /\ []C20_Order

\* The second cycle reached its advance step with the comment panel open.
C20_Witness ==
    \E t \in T :
        /\ tasks[t].pc = "cycle"
        /\ tasks[t].cycle = 2
        /\ CycleSteps[tasks[t].step] = "next"
        /\ tasks[t].opened


\* The calls of one login attempt the claim names, in the order it names them
\* (credentials are submitted by two fills and a click).
C21_Named == <<"goto", "fill_email", "fill_password", "click",
               "captcha1", "wait", "captcha2">>

\* A step of a login attempt: the calls after setup_browser start with the
\* first one and go on one by one; the decision (a session, or the teardown
\* of a failed attempt) is only taken in the step that made the second
\* captcha resolution, and it is a success exactly when the URL inspected
\* has no login marker.
C21_Step ==
    \A t \in T :
        (t \in DOMAIN tasks' /\ tasks'[t] # tasks[t])
        => LET a == tasks[t]
               b == tasks'[t]
               decided == \/ b.loggedIn # a.loggedIn
                          \/ (b.pc = "fail_close" /\ a.pc # "fail_close")
           IN  /\ (b.pc = "login_body" /\ a.pc # "login_body")
                  => (a.pc = "setup_page" /\ b.step = 1 /\ b.nSetup = b.current_attempt)
               /\ (b.pc = "login_body" /\ a.pc = "login_body") => b.step = a.step + 1
               /\ decided
                  => /\ a.pc = "login_body"
                     /\ LoginSteps[a.step] = "captcha2"
                     /\ (b.loggedIn # None) <=> (\A i \in 1..Len(b.url) : b.url[i] # "login")
                     /\ (b.pc = "fail_close") <=> (\E i \in 1..Len(b.url) : b.url[i] = "login")

\* A session exists only for a URL without the login marker.
C21_State ==
    /\ LoginSteps = C21_Named
    /\ \A t \in T :
          tasks[t].loggedIn # None
          => /\ Len(tasks[t].url) > 0
             /\ \A i \in 1..Len(tasks[t].url) : tasks[t].url[i] # "login"

\* C21: a login attempt acquires a fresh driver instance, navigates, submits
\* the credentials, resolves the captcha, waits, resolves the captcha again
\* and only then inspects the URL; it succeeds exactly when the URL has no
\* login marker, never before both captcha resolutions were attempted.
C21_LoginOrder == [][C21_Step]_vars /\ []C21_State

\* A second attempt succeeded after a first one that was decided a failure.
C21_Witness ==
    \E t \in T :
        /\ tasks[t].loggedIn = 2
        /\ tasks[t].nClose = 1
        /\ tasks[t].raised = {}
        /\ tasks[t].url = <<"foryou">>


\* C22: a task that was cancelled by an external interrupt has no browser
\* left open and no driver left running when it has ended.
C22_ReleasedOnCancel ==
    \A t \in T :
        "cancelled" \in tasks[t].raised
        => /\ tasks[t].pc = "done"
           /\ tasks[t].pwLive = {}
           /\ tasks[t].brLive = {}


\* C23: an account's task returns True exactly when its login returned a
\* session, whatever the cycles returned and whatever close_session hit,
\* so the summary counts the accounts that logged in.
C23_ResultIsLoginResult ==
    /\ \A t \in T :
          tasks[t].pc = "done" => (tasks[t].ret = "True" <=> tasks[t].loggedIn # None)
    /\ mainPc = "done"
       => summary.success = Cardinality({t \in T : tasks[t].loggedIn # None})

\* One account failed to log in; the other logged in, had its cycles cut
\* short by an exception and its close_session hit an error, and is the one
\* the summary counts.
C23_Witness ==
    /\ mainPc = "done"
    /\ summary.success = 1
    /\ \E t, u \in T :
          /\ {"cycles", "release"} \subseteq tasks[t].raised
          /\ tasks[t].ret = "True"
          /\ tasks[u].loggedIn = None


\* C24: once main awaits the account tasks, it eventually logs the summary
\* over all accounts, and by then every task has taken a unit of the gate
\* (it made a login attempt), has ended and has given the unit back.
C24_EveryTaskFinishes ==
    (mainPc = "gather")
        ~> /\ mainPc = "done"
           /\ summary.processed = Len(accounts)
           /\ Len(results) = Len(accounts)
           /\ semaphore = config.max_concurrent_accounts
           /\ \A t \in T : /\ tasks[t].pc = "done"
                           /\ ~tasks[t].holdsGate
                           /\ tasks[t].nSetup >= 1

\* The summary was logged for more accounts than the gate has units, each of
\* which logged in and went through its cycles.
C24_Witness ==
    /\ mainPc = "done"
    /\ Len(accounts) > config.max_concurrent_accounts
    /\ \A t \in T : tasks[t].loggedIn # None /\ tasks[t].nNext = config.cycles_per_account


\* The step in which page.goto or a captcha resolution raises inside a
\* cycle: process_videos is left at once, and close_session is what the
\* task awaits next, on the same session.
C25_Step ==
    \A t \in T :
        (t \in DOMAIN tasks' /\ "cycles" \in tasks'[t].raised \ tasks[t].raised)
        => LET a == tasks[t]
               b == tasks'[t]
           IN  /\ a.pc = "cycle"
               /\ Propagates(CycleSteps[a.step])
               /\ b.pc = "cs_close"
               /\ b.closeCalled
               /\ b.session = a.session
               /\ b.cycle = a.cycle
               /\ b.nNext = a.nNext

\* After such an exception the task is in close_session or has ended; the
\* feed was advanced only in the cycles before the one that raised; and if
\* close_session met no error the session's browser and driver are gone.
C25_State ==
    \A t \in T :
        "cycles" \in tasks[t].raised
        => /\ tasks[t].pc \in {"cs_close", "cs_stop", "done"}
           /\ tasks[t].closeCalled
           /\ tasks[t].nNext = tasks[t].cycle - 1
           /\ (tasks[t].pc = "done" /\ "release" \notin tasks[t].raised)
              => tasks[t].loggedIn \notin tasks[t].pwLive \cup tasks[t].brLive

\* C25: when navigation to the feed or a captcha resolution raises in cycle
\* j, no further step of cycle j and no later cycle runs, and the session
\* is released (close_session runs) afterwards.
C25_RaisingCycleEndsCycles == [][C25_Step]_vars /\ []C25_State

\* The first of two cycles raised; the task ended with no advance of the
\* feed and the session's browser and driver released.
C25_Witness ==
    \E t \in T :
        /\ "cycles" \in tasks[t].raised
        /\ tasks[t].pc = "done"
        /\ tasks[t].cycle = 1
        /\ config.cycles_per_account = 2
        /\ tasks[t].nNext = 0
        /\ tasks[t].pwLive = {}
        /\ tasks[t].brLive = {}

\* C26: the comment pool the cycles choose from is never empty, so no cycle
\* is cut short by the choice of a comment.
C26_PoolNeverEmpty ==
    /\ mainPc \in {"gather", "done"} => Len(comments) >= 1
    /\ \A t \in T : "choice" \notin tasks[t].raised


\* C27: once the configuration is constructed every recognized option has a
\* value, whether the settings file was missing, malformed, or well-formed
\* and listing only some options.
C27_EveryOptionSet ==
    mainPc = "start" => Options \subseteq DOMAIN config

====
